---- MODULE Spec2Model ----
(***************************************************************************)
(* A model of the type-erased callable container `function<R(Args...)>`    *)
(* of src/function.h and src/unnamed/part_001.                             *)
(*                                                                         *)
(* The repository holds three complete drafts of the same mechanism:       *)
(*   draft "A"  src/function.h lines 1-249    (storage with a default      *)
(*              member initializer, destroy-copy-rollback assignment)      *)
(*   draft "B"  src/function.h lines 251-483  (storage() = default with an *)
(*              uninitialized table pointer, copy-then-swap assignment)    *)
(*   draft "C"  src/unnamed/part_001          (container-level copy/move   *)
(*              constructors, swap-based assignments)                      *)
(* The variable `draft` selects the one a behaviour runs.                  *)
(*                                                                         *)
(* A container is a slot with a table pointer (`methods`) and a one        *)
(* pointer wide buffer (`obj`).  Every callable object has an identity for *)
(* as long as some buffer refers to it; `dtors` counts how often its       *)
(* destructor ran, `leaked` records an object dropped without one.         *)
(***************************************************************************)
EXTENDS Integers, FiniteSets, Sequences, TLC

VARIABLES
    draft,      \* which draft of the source runs: "A", "B" or "C"
    live,       \* live[s]: a container is constructed in slot s
    methods,    \* methods[s]: storage::methods, the active table pointer
    obj,        \* obj[s]: storage::obj, the contents of the inline buffer
    hval,       \* hval[o]: state of the heap-allocated callable o
    dtors,      \* dtors[o]: number of destructor runs on object o (2 = more than once)
    leaked,     \* a callable object became unreachable without its destructor run
    ub,         \* undefined behaviour has been executed
    ev          \* record of the last operation (history variable); ev.news counts
                \* the heap allocations (successful new T) it made

vars == <<draft, live, methods, obj, hval, dtors, leaked, ub, ev>>

-----------------------------------------------------------------------------
(* Bounds *)

MaxVal == 3         \* largest state of a callable / largest result

-----------------------------------------------------------------------------
(* Callable types supplied by client code *)

Drafts == {"A", "B", "C"}
Slots == {"a", "b"}
Temp == "temp"                     \* the local temporary of an assignment
Cells == Slots \cup {Temp}
\* identities: one per cell and one for the copy an assignment rolls back to
ObjIds == 1..(Cardinality(Cells) + 1)
Vals == 0..MaxVal

\* "Tiny": a functor holding one int; "Big": a functor holding two pointers.
\* Both are nothrow-move-constructible; their copy constructors may throw.
Types == {"Tiny", "Big"}
SizeOf(T) == IF T = "Tiny" THEN 4 ELSE 16
AlignOf(T) == IF T = "Tiny" THEN 4 ELSE 8
NothrowMove(T) == TRUE
PtrSize == 8
PtrAlign == 8

\* is_small_v<T>; draft A also asks for a nothrow move constructor
is_small_v(T) ==
    /\ SizeOf(T) <= PtrSize
    /\ PtrAlign % AlignOf(T) = 0
    /\ (draft = "A" => NothrowMove(T))

\* The callable itself: an accumulator, f(a) adds a to its state and
\* returns the sum (a counter when a = 1).
Call(T, v, a) == [ret |-> v + a, val |-> v + a]

-----------------------------------------------------------------------------
(* Tables and buffer contents *)

EmptyTable == "empty"              \* get_empty_methods()
Unset == "unset"                   \* an uninitialized table pointer
Crash == "crash"                   \* an indeterminate pointer that is no table
\* object_traits<T, is_small_v<T>>::get_methods(): one table per type
get_methods(T) == T
Tables == {EmptyTable} \cup {get_methods(T) : T \in Types}

Garbage == [kind |-> "garbage", ty |-> "none", id |-> 0, val |-> 0]
Inline(T, o, v) == [kind |-> "inline", ty |-> T, id |-> o, val |-> v]
Ptr(T, o) == [kind |-> "ptr", ty |-> T, id |-> o, val |-> 0]
BufAddr == [kind |-> "bufaddr", ty |-> "none", id |-> 0, val |-> 0]
Null == [kind |-> "null", ty |-> "none", id |-> 0, val |-> 0]

\* the identities the buffers in o refer to
Referenced(o) == {o[c].id : c \in {d \in DOMAIN o : o[d].kind \in {"inline", "ptr"}}}

\* the machine state an operation works on, with its outcome
Machine == [methods |-> methods, obj |-> obj, hval |-> hval, dtors |-> dtors,
            used |-> Referenced(obj), ub |-> ub, exc |-> "none", ret |-> 0,
            unset |-> FALSE, news |-> 0]

\* the identity of the next object constructed
NewId(m) == CHOOSE o \in ObjIds \ m.used : \A p \in ObjIds \ m.used : o <= p

\* get_small_obj<T>() denotes a live T in the buffer
HoldsSmall(m, s, T) ==
    /\ m.obj[s].kind = "inline"
    /\ m.obj[s].ty = T
    /\ m.dtors[m.obj[s].id] = 0

\* get_large_obj<T>() denotes a live T on the heap
HoldsLarge(m, s, T) ==
    /\ m.obj[s].kind = "ptr"
    /\ m.obj[s].ty = T
    /\ m.dtors[m.obj[s].id] = 0

Bump(d, o) == [d EXCEPT ![o] = IF @ < 2 THEN @ + 1 ELSE 2]

-----------------------------------------------------------------------------
(* The empty-state table *)

\* faulty variant: the empty table's invoke returns normally
empty_invoke_returns(m, s) == m

empty_invoke(m, s) == [m EXCEPT !.exc = "bad_function_call"]

empty_copy(m, to, from) == [m EXCEPT !.methods[to] = m.methods[from]]

\* faulty variant: the empty table's move also takes the buffer over
empty_move_takes_buffer(m, to, from) ==
    [m EXCEPT !.methods[to] = m.methods[from], !.obj[to] = m.obj[from]]

empty_move(m, to, from) == [m EXCEPT !.methods[to] = m.methods[from]]

empty_destroy(m, s) == m

-----------------------------------------------------------------------------
(* The small-object table, object_traits<T, true> *)

\* faulty variant: the call does not forward its arguments
small_invoke_drops_args(m, T, s, a, nd) ==
    IF HoldsSmall(m, s, T)
    THEN [m EXCEPT !.ret = m.obj[s].val]
    ELSE [m EXCEPT !.ub = TRUE, !.ret = nd]

small_invoke(m, T, s, a, nd) ==
    IF HoldsSmall(m, s, T)
    THEN LET r == Call(T, m.obj[s].val, a)
         IN  [m EXCEPT !.obj[s].val = r.val, !.ret = r.ret]
    ELSE [m EXCEPT !.ub = TRUE, !.ret = nd]

\* faulty variant: the copy leaves the source value-initialized
small_copy_drains(m, T, to, from, fail, nd) ==
    IF fail THEN [m EXCEPT !.exc = "copy_failed"]
    ELSE LET o == NewId(m)
         IN  [m EXCEPT !.used = m.used \cup {o},
                       !.obj[to] = Inline(T, o, m.obj[from].val),
                       !.obj[from].val = 0,
                       !.methods[to] = m.methods[from]]

\* new(&to->obj) T(from); to->methods = from->methods;
small_copy(m, T, to, from, fail, nd) ==
    IF fail THEN [m EXCEPT !.exc = "copy_failed"]
    ELSE LET o == NewId(m)
             ok == HoldsSmall(m, from, T)
             v == IF ok THEN m.obj[from].val ELSE nd
         IN  [m EXCEPT !.used = m.used \cup {o},
                       !.obj[to] = Inline(T, o, v),
                       !.methods[to] = m.methods[from],
                       !.ub = m.ub \/ ~ok]

\* faulty variant: the destination gets a value-initialized T
small_move_resets(m, T, to, from, nd) ==
    LET o == NewId(m)
    IN  [m EXCEPT !.methods[to] = m.methods[from],
                  !.used = m.used \cup {o},
                  !.obj[to] = Inline(T, o, 0)]

\* draft A: to->methods = from->methods; new(&to->obj) T(std::move(from));
small_move_A(m, T, to, from, nd) ==
    LET o == NewId(m)
        ok == HoldsSmall(m, from, T)
        v == IF ok THEN m.obj[from].val ELSE nd
    IN  [m EXCEPT !.methods[to] = m.methods[from],
                  !.used = m.used \cup {o},
                  !.obj[to] = Inline(T, o, v),
                  !.ub = m.ub \/ ~ok]

\* draft B: to->obj = std::move(from->obj); to->methods = from->methods;
small_move_B(m, T, to, from, nd) ==
    [m EXCEPT !.obj[to] = m.obj[from],
              !.methods[to] = m.methods[from]]

\* draft C: new(&to->obj) T(std::move(from)); to->methods = from->methods;
\*          from->methods = get_empty_methods();
small_move_C(m, T, to, from, nd) ==
    LET o == NewId(m)
        ok == HoldsSmall(m, from, T)
        v == IF ok THEN m.obj[from].val ELSE nd
    IN  [m EXCEPT !.used = m.used \cup {o},
                  !.obj[to] = Inline(T, o, v),
                  !.methods[to] = m.methods[from],
                  !.methods[from] = EmptyTable,
                  !.ub = m.ub \/ ~ok]

small_move(m, T, to, from, nd) ==
    CASE draft = "A" -> small_move_A(m, T, to, from, nd)
      [] draft = "B" -> small_move_B(m, T, to, from, nd)
      [] draft = "C" -> small_move_C(m, T, to, from, nd)

\* stg->get_small_obj<T>().~T();
small_destroy(m, T, s) ==
    IF m.obj[s].kind = "inline" /\ m.obj[s].ty = T
    THEN [m EXCEPT !.dtors = Bump(m.dtors, m.obj[s].id),
                   !.ub = m.ub \/ m.dtors[m.obj[s].id] > 0]
    ELSE [m EXCEPT !.ub = TRUE]

-----------------------------------------------------------------------------
(* The large-object table, object_traits<T, false> *)

\* drafts A, B: (*stg->get_large_obj<T>())(args...)
large_invoke_AB(m, T, s, a, nd) ==
    IF HoldsLarge(m, s, T)
    THEN LET o == m.obj[s].id
             r == Call(T, m.hval[o], a)
         IN  [m EXCEPT !.hval[o] = r.val, !.ret = r.ret]
    ELSE [m EXCEPT !.ub = TRUE, !.ret = nd]

\* draft C: (*reinterpret_cast<const T *>(obj))(args...) calls the buffer,
\* which holds a pointer and not a T
large_invoke_C(m, T, s, a, nd) == [m EXCEPT !.ub = TRUE, !.ret = nd]

large_invoke(m, T, s, a, nd) ==
    IF draft = "C" THEN large_invoke_C(m, T, s, a, nd)
    ELSE large_invoke_AB(m, T, s, a, nd)

\* drafts A, B: to->obj = new T(*from->get_large_obj<T>()); to->methods = from->methods;
large_copy_AB(m, T, to, from, fail, nd) ==
    IF fail THEN [m EXCEPT !.exc = "copy_failed"]
    ELSE LET o == NewId(m)
             ok == HoldsLarge(m, from, T)
             v == IF ok THEN m.hval[m.obj[from].id] ELSE nd
         IN  [m EXCEPT !.used = m.used \cup {o},
                       !.news = m.news + 1,
                       !.hval[o] = v,
                       !.obj[to] = Ptr(T, o),
                       !.methods[to] = m.methods[from],
                       !.ub = m.ub \/ ~ok]

\* draft C: to->obj = new T(*reinterpret_cast<const T *>(&from->obj));
\* copy-constructs from the buffer itself
large_copy_C(m, T, to, from, fail, nd) ==
    IF fail THEN [m EXCEPT !.exc = "copy_failed"]
    ELSE LET o == NewId(m)
         IN  [m EXCEPT !.used = m.used \cup {o},
                       !.news = m.news + 1,
                       !.hval[o] = nd,
                       !.obj[to] = Ptr(T, o),
                       !.methods[to] = m.methods[from],
                       !.ub = TRUE]

large_copy(m, T, to, from, fail, nd) ==
    IF draft = "C" THEN large_copy_C(m, T, to, from, fail, nd)
    ELSE large_copy_AB(m, T, to, from, fail, nd)

\* faulty variant: the move clones the heap object instead of taking the pointer
large_move_clones(m, T, to, from) ==
    LET o == NewId(m)
    IN  [m EXCEPT !.used = m.used \cup {o},
                  !.news = m.news + 1,
                  !.hval[o] = m.hval[m.obj[from].id],
                  !.obj[to] = Ptr(T, o),
                  !.methods[to] = m.methods[from],
                  !.methods[from] = EmptyTable]

\* drafts A, B: to->obj = from->obj; to->methods = from->methods;
\*              from->methods = get_empty_methods();
large_move_AB(m, T, to, from) ==
    [m EXCEPT !.obj[to] = m.obj[from],
              !.methods[to] = m.methods[from],
              !.methods[from] = EmptyTable]

\* draft C: to->obj = (T *)&from->obj; from->obj = nullptr; to->methods = from->methods;
\*          from->methods = get_empty_methods();
large_move_C(m, T, to, from) ==
    [m EXCEPT !.obj[to] = BufAddr,
              !.obj[from] = Null,
              !.methods[to] = m.methods[from],
              !.methods[from] = EmptyTable]

large_move(m, T, to, from) ==
    IF draft = "C" THEN large_move_C(m, T, to, from)
    ELSE large_move_AB(m, T, to, from)

\* drafts A, B: delete stg->get_large_obj<T>();
large_destroy_AB(m, T, s) ==
    IF m.obj[s].kind = "ptr" /\ m.obj[s].ty = T
    THEN [m EXCEPT !.dtors = Bump(m.dtors, m.obj[s].id),
                   !.hval[m.obj[s].id] = 0,
                   !.ub = m.ub \/ m.dtors[m.obj[s].id] > 0]
    ELSE [m EXCEPT !.ub = TRUE]

\* draft C: delete reinterpret_cast<T *>(obj) deletes the buffer itself
large_destroy_C(m, T, s) == [m EXCEPT !.ub = TRUE]

large_destroy(m, T, s) ==
    IF draft = "C" THEN large_destroy_C(m, T, s)
    ELSE large_destroy_AB(m, T, s)

-----------------------------------------------------------------------------
(* Dispatch through a table pointer *)

\* Reading an uninitialized table pointer yields an indeterminate value g.
Resolve(m, t, g) == IF t = Unset THEN g ELSE t
Mark(m, t) == IF t = Unset THEN [m EXCEPT !.ub = TRUE, !.unset = TRUE] ELSE m

\* t->invoke(stg, a)
invoke(m, t, s, a, nd, g) ==
    LET r == Resolve(m, t, g)
        n == Mark(m, t)
    IN  CASE r = EmptyTable -> empty_invoke(n, s)
          [] r \in Types ->
                IF is_small_v(r) THEN small_invoke(n, r, s, a, nd)
                ELSE large_invoke(n, r, s, a, nd)
          [] OTHER -> [n EXCEPT !.ub = TRUE, !.ret = nd]

\* t->copy(to, from)
copy(m, t, to, from, fail, nd, g) ==
    LET r == Resolve(m, t, g)
        n == Mark(m, t)
    IN  CASE r = EmptyTable -> empty_copy(n, to, from)
          [] r \in Types ->
                IF is_small_v(r) THEN small_copy(n, r, to, from, fail, nd)
                ELSE large_copy(n, r, to, from, fail, nd)
          [] OTHER -> [n EXCEPT !.ub = TRUE]

\* t->move(to, from)
move(m, t, to, from, nd, g) ==
    LET r == Resolve(m, t, g)
        n == Mark(m, t)
    IN  CASE r = EmptyTable -> empty_move(n, to, from)
          [] r \in Types ->
                IF is_small_v(r) THEN small_move(n, r, to, from, nd)
                ELSE large_move(n, r, to, from)
          [] OTHER -> [n EXCEPT !.ub = TRUE]

\* t->destroy(stg)
destroy(m, t, s, g) ==
    LET r == Resolve(m, t, g)
        n == Mark(m, t)
    IN  CASE r = EmptyTable -> empty_destroy(n, s)
          [] r \in Types ->
                IF is_small_v(r) THEN small_destroy(n, r, s)
                ELSE large_destroy(n, r, s)
          [] OTHER -> [n EXCEPT !.ub = TRUE]

-----------------------------------------------------------------------------
(* storage and function: construction, assignment, destruction *)

\* storage(): draft A initializes methods to the empty table (default member
\* initializer); drafts B and C leave it uninitialized
storage_default(m, this) ==
    [m EXCEPT !.methods[this] = IF draft = "A" THEN EmptyTable ELSE Unset,
              !.obj[this] = Garbage]

\* ~storage() / ~function(): methods->destroy(this); the cell is gone afterwards
storage_dtor(m, this, g) ==
    LET n == destroy(m, m.methods[this], this, g)
    IN  [n EXCEPT !.methods[this] = Unset, !.obj[this] = Garbage]

\* faulty variant: the default constructor sets no table
function_default_unset(m, this) == storage_default(m, this)

\* function(): stg.methods = get_empty_methods()
function_default(m, this) ==
    [storage_default(m, this) EXCEPT !.methods[this] = EmptyTable]

\* function(T val): the buffer is populated, then the table is installed.
\* When new T(val) throws, the already constructed member stg is destroyed
\* (drafts A, B); draft C's storage has no destructor.
function_from(m, this, T, v, fail, g) ==
    LET m0 == storage_default(m, this)
        o == NewId(m0)
    IN  IF is_small_v(T)
        THEN [m0 EXCEPT !.used = m0.used \cup {o},
                        !.obj[this] = Inline(T, o, v),
                        !.methods[this] = get_methods(T)]
        ELSE IF fail
             THEN IF draft = "C" THEN [m0 EXCEPT !.exc = "bad_alloc"]
                  ELSE [storage_dtor(m0, this, g) EXCEPT !.exc = "bad_alloc"]
             ELSE [m0 EXCEPT !.used = m0.used \cup {o},
                             !.news = m0.news + 1,
                             !.hval[o] = v,
                             !.obj[this] = Ptr(T, o),
                             !.methods[this] = get_methods(T)]

\* storage(const storage &other): other.methods->copy(this, &other)
\* draft C, function(function const &other): stg.methods->copy(&stg, &other.stg)
copy_ctor(m, this, other, fail, nd, g) ==
    LET m0 == storage_default(m, this)
    IN  IF draft = "C"
        THEN copy(m0, m0.methods[this], this, other, fail, nd, g)
        ELSE copy(m0, m0.methods[other], this, other, fail, nd, g)

\* storage(storage &&other): other.methods->move(this, &other)
\* draft C, function(function &&other): stg.methods->move(&stg, &other.stg)
move_ctor(m, this, other, nd, g) ==
    LET m0 == storage_default(m, this)
    IN  IF draft = "C"
        THEN move(m0, m0.methods[this], this, other, nd, g)
        ELSE move(m0, m0.methods[other], this, other, nd, g)

\* faulty variant: the tables are exchanged, the buffers are not
swap_tables_only(m, x, y) ==
    [m EXCEPT !.methods[x] = m.methods[y], !.methods[y] = m.methods[x]]

\* storage::swap / function::swap
swap(m, x, y) ==
    [m EXCEPT !.methods[x] = m.methods[y], !.methods[y] = m.methods[x],
              !.obj[x] = m.obj[y], !.obj[y] = m.obj[x]]

\* draft A, storage::operator=(const storage &rhs):
\*   storage temp(*this); methods->destroy(this);
\*   try { rhs.methods->copy(this, &rhs); }
\*   catch (...) { temp.methods->copy(this, &temp); throw; }
copy_assign_A(m, this, rhs, f1, f2, f3, nd, g) ==
    LET m1 == copy_ctor(m, Temp, this, f1, nd, g)
    IN  IF m1.exc # "none" THEN [m1 EXCEPT !.methods[Temp] = Unset, !.obj[Temp] = Garbage]
        ELSE LET m2 == destroy(m1, m1.methods[this], this, g)
                 m3 == copy(m2, m2.methods[rhs], this, rhs, f2, nd, g)
             IN  IF m3.exc = "none" THEN storage_dtor(m3, Temp, g)
                 ELSE LET m4 == copy([m3 EXCEPT !.exc = "none"], m3.methods[Temp],
                                     this, Temp, f3, nd, g)
                      IN  [storage_dtor(m4, Temp, g) EXCEPT !.exc = "copy_failed"]

\* draft B, storage::operator=(const storage &rhs): storage(rhs).swap(*this);
\* draft C, function::operator=(function const &rhs): function(rhs).swap(*this);
copy_assign_BC(m, this, rhs, f1, nd, g) ==
    LET m1 == copy_ctor(m, Temp, rhs, f1, nd, g)
    IN  IF m1.exc # "none" THEN [m1 EXCEPT !.methods[Temp] = Unset, !.obj[Temp] = Garbage]
        ELSE storage_dtor(swap(m1, Temp, this), Temp, g)

\* faulty variant: no test for this = &rhs
copy_assign_unguarded(m, this, rhs, f1, f2, f3, nd, g) ==
    IF draft = "A" THEN copy_assign_A(m, this, rhs, f1, f2, f3, nd, g)
    ELSE copy_assign_BC(m, this, rhs, f1, nd, g)

copy_assign(m, this, rhs, f1, f2, f3, nd, g) ==
    IF this = rhs THEN m
    ELSE IF draft = "A" THEN copy_assign_A(m, this, rhs, f1, f2, f3, nd, g)
    ELSE copy_assign_BC(m, this, rhs, f1, nd, g)

\* drafts A, B, storage::operator=(storage &&rhs):
\*   methods->destroy(this); rhs.methods->move(this, &rhs);
move_assign_AB(m, this, rhs, nd, g) ==
    LET m1 == destroy(m, m.methods[this], this, g)
    IN  move(m1, m1.methods[rhs], this, rhs, nd, g)

\* draft C, function::operator=(function &&rhs): function(std::move(rhs)).swap(*this);
move_assign_C(m, this, rhs, nd, g) ==
    LET m1 == move_ctor(m, Temp, rhs, nd, g)
    IN  storage_dtor(swap(m1, Temp, this), Temp, g)

move_assign(m, this, rhs, nd, g) ==
    IF this = rhs THEN m
    ELSE IF draft = "C" THEN move_assign_C(m, this, rhs, nd, g)
    ELSE move_assign_AB(m, this, rhs, nd, g)

\* faulty variant: emptiness kept as a separate "buffer was populated" flag
operator_bool_flag(m, s) == m.obj[s].kind \in {"inline", "ptr"}

\* operator bool: stg.methods != get_empty_methods()
operator_bool(m, s) == m.methods[s] # EmptyTable

\* faulty variant: the buffer is handed out without comparing the table
target_unchecked(m, s, T) ==
    IF is_small_v(T) THEN [kind |-> "inline", at |-> s, id |-> m.obj[s].id]
    ELSE [kind |-> "ptr", at |-> s, id |-> m.obj[s].id]

\* target<T>(): the held object when the active table is T's table, else nullptr.
\* A small object's handle is the buffer itself, a large one's the stored pointer.
target(m, s, T) ==
    IF get_methods(T) = m.methods[s]
    THEN IF is_small_v(T) THEN [kind |-> "inline", at |-> s, id |-> m.obj[s].id]
         ELSE [kind |-> "ptr", at |-> s, id |-> m.obj[s].id]
    ELSE [kind |-> "null", at |-> s, id |-> 0]

-----------------------------------------------------------------------------
(* The state machine *)

Args == {1, 2}                     \* call arguments
InitVals == {0, 1}                 \* initial states of client callables
Indet == Tables \cup {Crash}       \* values of an indeterminate table pointer
\* which of the copies an operation performs fail, numbered in program order
FailSets == {{}, {1}, {2}, {2, 3}}

\* An indeterminate value (nd: a value read through a dangling or mistyped
\* reference, g: the value of an uninitialized table pointer) is drawn freely
\* exactly when the operation reads it; m0 is the operation's outcome for one
\* draw.
NdSet(m0) == IF m0.ub THEN Vals ELSE {0}
GSet(m0) == IF m0.unset THEN Indet ELSE {EmptyTable}

Shape == [methods |-> [s \in Slots |-> methods[s]], obj |-> [s \in Slots |-> obj[s]]]
NoShape == [methods |-> [s \in Slots |-> Unset], obj |-> [s \in Slots |-> Garbage]]

\* the objects the containers that remain still refer to
Kept(m, lv) == Referenced([s \in {t \in Slots : lv[t]} |-> m.obj[s]])

\* Install the outcome m of operation op; slots without a container are blank
\* and identities no buffer refers to any more are given up.
\* Nothing is modelled beyond the first undefined behaviour.
Commit(m, op, x, y, ty, a, lv) ==
    /\ ~ub
    /\ live' = lv
    /\ methods' = [c \in Cells |-> IF c \in Slots /\ lv[c] THEN m.methods[c] ELSE Unset]
    /\ obj' = [c \in Cells |-> IF c \in Slots /\ lv[c] THEN m.obj[c] ELSE Garbage]
    /\ hval' = [o \in ObjIds |-> IF o \in Kept(m, lv) THEN m.hval[o] ELSE 0]
    /\ dtors' = [o \in ObjIds |-> IF o \in Kept(m, lv) THEN m.dtors[o] ELSE 0]
    /\ leaked' = (leaked \/ \E o \in m.used \ Kept(m, lv) : m.dtors[o] = 0)
    /\ ub' = m.ub
    /\ ev' = [op |-> op, x |-> x, y |-> y, ty |-> ty, a |-> a, exc |-> m.exc, ret |-> m.ret,
              unset |-> m.unset, news |-> m.news,
              orig |-> IF op = "swap" THEN Shape ELSE NoShape]
    /\ UNCHANGED draft

Init ==
    /\ draft \in Drafts
    /\ live = [s \in Slots |-> FALSE]
    /\ methods = [c \in Cells |-> Unset]
    /\ obj = [c \in Cells |-> Garbage]
    /\ hval = [o \in ObjIds |-> 0]
    /\ dtors = [o \in ObjIds |-> 0]
    /\ leaked = FALSE
    /\ ub = FALSE
    /\ ev = [op |-> "init", x |-> "a", y |-> "a", ty |-> "none", a |-> 0, exc |-> "none", ret |-> 0,
             unset |-> FALSE, news |-> 0, orig |-> NoShape]

\* function<R(Args...)> s;
DefaultConstruct(s) ==
    /\ ~live[s]
    /\ Commit(function_default(Machine, s), "default", s, s, "none", 0,
              [live EXCEPT ![s] = TRUE])

\* function<R(Args...)> s(f);  f a callable of type T in state v
Construct(s, T, v, fail) ==
    /\ ~live[s]
    /\ fail => ~is_small_v(T)
    /\ \E g \in GSet(function_from(Machine, s, T, v, fail, EmptyTable)) :
         LET m == function_from(Machine, s, T, v, fail, g)
         IN  Commit(m, "construct", s, s, T, v,
                    [live EXCEPT ![s] = (m.exc = "none")])

\* function<R(Args...)> d(s);
CopyConstruct(d, s, fail) ==
    /\ ~live[d] /\ live[s]
    /\ LET m0 == copy_ctor(Machine, d, s, fail, 0, EmptyTable)
       IN  \E nd \in NdSet(m0), g \in GSet(m0) :
             LET m == copy_ctor(Machine, d, s, fail, nd, g)
             IN  Commit(m, "copy_construct", d, s, "none", 0,
                        [live EXCEPT ![d] = (m.exc = "none")])

\* function<R(Args...)> d(std::move(s));
MoveConstruct(d, s) ==
    /\ ~live[d] /\ live[s]
    /\ LET m0 == move_ctor(Machine, d, s, 0, EmptyTable)
       IN  \E nd \in NdSet(m0), g \in GSet(m0) :
             LET m == move_ctor(Machine, d, s, nd, g)
             IN  Commit(m, "move_construct", d, s, "none", 0,
                        [live EXCEPT ![d] = TRUE])

\* x = y;
CopyAssign(x, y, F) ==
    /\ live[x] /\ live[y]
    /\ LET m0 == copy_assign(Machine, x, y, 1 \in F, 2 \in F, 3 \in F, 0, EmptyTable)
       IN  \E nd \in NdSet(m0), g \in GSet(m0) :
             LET m == copy_assign(Machine, x, y, 1 \in F, 2 \in F, 3 \in F, nd, g)
             IN  Commit(m, "copy_assign", x, y, "none", 0, live)

\* x = std::move(y);
MoveAssign(x, y) ==
    /\ live[x] /\ live[y]
    /\ LET m0 == move_assign(Machine, x, y, 0, EmptyTable)
       IN  \E nd \in NdSet(m0), g \in GSet(m0) :
             LET m == move_assign(Machine, x, y, nd, g)
             IN  Commit(m, "move_assign", x, y, "none", 0, live)

\* x.swap(y): storage::swap of draft B, function::swap of draft C
Swap(x, y) ==
    /\ draft \in {"B", "C"}
    /\ live[x] /\ live[y]
    /\ x # y
    /\ Commit(swap(Machine, x, y), "swap", x, y, "none",
              IF ev.op = "swap" /\ {ev.x, ev.y} = {x, y} THEN 2 ELSE 1, live)

\* s(a)
Invoke(s, a) ==
    /\ live[s]
    /\ LET m0 == invoke(Machine, methods[s], s, a, 0, EmptyTable)
       IN  \E nd \in NdSet(m0), g \in GSet(m0) :
             LET m == invoke(Machine, methods[s], s, a, nd, g)
             IN  /\ m.ret <= MaxVal
                 /\ Commit(m, "invoke", s, s, "none", a, live)

\* s goes out of scope
Destroy(s) ==
    /\ live[s]
    /\ \E g \in GSet(storage_dtor(Machine, s, EmptyTable)) :
         Commit(storage_dtor(Machine, s, g), "destroy", s, s, "none", 0,
                [live EXCEPT ![s] = FALSE])

Next ==
    \/ \E s \in Slots : DefaultConstruct(s)
    \/ \E s \in Slots, T \in Types, v \in InitVals, fail \in BOOLEAN :
          Construct(s, T, v, fail)
    \/ \E d, s \in Slots, fail \in BOOLEAN : CopyConstruct(d, s, fail)
    \/ \E d, s \in Slots : MoveConstruct(d, s)
    \/ \E x, y \in Slots, F \in FailSets : CopyAssign(x, y, F)
    \/ \E x, y \in Slots : MoveAssign(x, y)
    \/ \E x, y \in Slots : Swap(x, y)
    \/ \E s \in Slots, a \in Args : Invoke(s, a)
    \/ \E s \in Slots : Destroy(s)

Spec == Init /\ [][Next]_vars

\* the same operations when no copy and no allocation fails
NextNoFail ==
    \/ \E s \in Slots : DefaultConstruct(s)
    \/ \E s \in Slots, T \in Types, v \in InitVals : Construct(s, T, v, FALSE)
    \/ \E d, s \in Slots : CopyConstruct(d, s, FALSE)
    \/ \E d, s \in Slots : MoveConstruct(d, s)
    \/ \E x, y \in Slots : CopyAssign(x, y, {})
    \/ \E x, y \in Slots : MoveAssign(x, y)
    \/ \E x, y \in Slots : Swap(x, y)
    \/ \E s \in Slots, a \in Args : Invoke(s, a)
    \/ \E s \in Slots : Destroy(s)

SpecNoFail == Init /\ [][NextNoFail]_vars

-----------------------------------------------------------------------------
(* Observations used by the properties *)

\* slot s holds a live callable of the type its table was generated for
Held(m, s) ==
    /\ m.methods[s] \in Types
    /\ IF is_small_v(m.methods[s]) THEN HoldsSmall(m, s, m.methods[s])
       ELSE HoldsLarge(m, s, m.methods[s])

\* the state of the callable held by slot s (-1: none)
ValOf(m, s) ==
    IF ~Held(m, s) THEN -1
    ELSE IF is_small_v(m.methods[s]) THEN m.obj[s].val
    ELSE m.hval[m.obj[s].id]

\* the buffer of slot s was populated with a T, as T's classification says
Populated(m, s, T) ==
    /\ m.obj[s].ty = T
    /\ m.obj[s].kind = IF is_small_v(T) THEN "inline" ELSE "ptr"

Other(s) == CHOOSE t \in Slots : t # s
FunctionH == draft \in {"A", "B"}      \* the two drafts of src/function.h
Frame == /\ hval' = hval /\ dtors' = dtors /\ leaked' = leaked /\ ~ub'

-----------------------------------------------------------------------------
(* Properties *)

\* C1: invoking a container whose active table is the empty-state table
\* signals bad_function_call and changes neither its table pointer nor its
\* buffer (nor anything else).
C1_EmptyInvokeThrows ==
    [][(ev'.op = "invoke" /\ methods[ev'.x] = EmptyTable)
          => /\ ev'.exc = "bad_function_call"
             /\ methods' = methods /\ obj' = obj
             /\ Frame]_vars

C1_Witness ==
    /\ ev.op = "invoke" /\ ev.exc = "bad_function_call"
    /\ live[ev.x] /\ methods[ev.x] = EmptyTable
    /\ obj[ev.x].kind = "ptr"          \* emptied by a move, the buffer still set

\* C2: whenever the copy-assignment of draft A propagates a failure, the
\* target holds the same callable value and the same table as before and is
\* valid (a live object of its table's type, or empty).
C2_CopyAssignStrong ==
    [][(draft = "A" /\ ev'.op = "copy_assign" /\ ev'.exc # "none")
          => /\ methods'[ev'.x] = methods[ev'.x]
             /\ ValOf(Machine', ev'.x) = ValOf(Machine, ev'.x)
             /\ (methods'[ev'.x] = EmptyTable \/ Held(Machine', ev'.x))]_vars

\* C3: after move-constructing e from a non-empty container c, small or
\* large, bool(c) is false.
C3_MovedFromIsEmpty ==
    (FunctionH /\ ev.op = "move_construct") => ~operator_bool(Machine, ev.y)

\* C4 (first draft of function.h): after copy-constructing or copy-assigning
\* d from a container c that holds a callable, d holds an object of its own
\* with c's state and table, c is as before, and the operation stayed within
\* defined behaviour; a call on one container returns f(a) for the state it
\* held and leaves the state held by the other container alone.
C4_CopiesIndependent ==
    [][/\ (/\ draft = "A"
           /\ ev'.op \in {"copy_construct", "copy_assign"}
           /\ ev'.x # ev'.y /\ ev'.exc = "none"
           /\ Held(Machine, ev'.y))
          => /\ methods'[ev'.x] = methods[ev'.y]
             /\ ValOf(Machine', ev'.x) = ValOf(Machine, ev'.y)
             /\ ValOf(Machine', ev'.y) = ValOf(Machine, ev'.y)
             /\ obj'[ev'.x].id # obj'[ev'.y].id
             /\ ~ub'
       /\ (/\ draft = "A"
           /\ ev'.op = "invoke"
           /\ Held(Machine, ev'.x))
          => /\ ev'.ret = Call(methods[ev'.x], ValOf(Machine, ev'.x), ev'.a).ret
             /\ ValOf(Machine', ev'.x) = Call(methods[ev'.x], ValOf(Machine, ev'.x), ev'.a).val
             /\ ValOf(Machine', Other(ev'.x)) = ValOf(Machine, Other(ev'.x))
      ]_vars

\* C5 (function.h): a container constructed from a callable f of state v,
\* small or large, and invoked with a returns what f(a) returns.
C5_InvokeIsDirectCall ==
    [][(/\ FunctionH
        /\ ev.op = "construct" /\ ev.exc = "none"
        /\ ev'.op = "invoke" /\ ev'.x = ev.x)
          => /\ ev'.exc = "none"
             /\ ev'.ret = Call(ev.ty, ev.a, ev'.a).ret
             /\ ~ub']_vars

C5_Witness ==
    /\ draft = "A"
    /\ ev.op = "invoke" /\ ev.exc = "none" /\ ev.a = 2 /\ ev.ret = 3
    /\ methods[ev.x] = "Big" /\ ~live[Other(ev.x)]

\* C6: constructing a container from a callable fails only on the large
\* path, and a failed construction dispatches no destroy through a table
\* pointer that was never set and leaves no container behind.
C6_FailedConstructionClean ==
    (ev.op = "construct" /\ ev.exc # "none")
        => /\ ~is_small_v(ev.ty)
           /\ ~ev.unset
           /\ ~ub
           /\ ~live[ev.x]

\* C7 (function.h): move-constructing e from a non-empty c carries c's
\* callable with its current state over to e, c and e never point to one
\* heap object while c is callable, and a call on e returns f(a) for that state.
C7_MoveCarriesState ==
    [][/\ (/\ FunctionH
           /\ ev'.op = "move_construct"
           /\ Held(Machine, ev'.y))
          => /\ methods'[ev'.x] = methods[ev'.y]
             /\ Held(Machine', ev'.x)
             /\ ValOf(Machine', ev'.x) = ValOf(Machine, ev'.y)
             /\ (operator_bool(Machine', ev'.y) /\ obj'[ev'.y].kind = "ptr")
                    => obj'[ev'.y].id # obj'[ev'.x].id
             /\ ~ub'
       /\ (/\ FunctionH
           /\ ev.op = "move_construct"
           /\ ev'.op = "invoke" /\ ev'.x = ev.x
           /\ Held(Machine, ev.x))
          => ev'.ret = Call(methods[ev.x], ValOf(Machine, ev.x), ev'.a).ret
      ]_vars

C7_Witness ==
    /\ draft = "A"
    /\ ev.op = "move_construct"
    /\ methods[ev.x] = "Tiny"
    /\ ValOf(Machine, ev.x) = 2

\* C8 (function.h): target<T>() is non-null exactly when the container is
\* non-empty and its buffer was populated with a T; the handle then denotes
\* the object in the buffer; it is null for every other type and when empty.
C8_TargetExact ==
    FunctionH =>
      \A s \in Slots, T \in Types :
        live[s] =>
          LET h == target(Machine, s, T)
          IN  /\ (h.kind # "null") <=> (operator_bool(Machine, s) /\ Populated(Machine, s, T))
              /\ (h.kind # "null") => (h.id = obj[s].id /\ h.id # 0)
              /\ (h.kind # "null") => \A U \in Types \ {T} : target(Machine, s, U).kind = "null"

C8_Witness ==
    /\ draft = "A"
    /\ live["a"] /\ target(Machine, "a", "Big").kind = "ptr"
    /\ target(Machine, "a", "Tiny").kind = "null"
    /\ live["b"] /\ methods["b"] = EmptyTable
    /\ target(Machine, "b", "Big").kind = "null"

\* C9: self copy-assignment and self move-assignment change nothing: same
\* table pointer, same buffer, same callable state, no destructor run.
C9_SelfAssignNoop ==
    [][(ev'.op \in {"copy_assign", "move_assign"} /\ ev'.x = ev'.y)
          => /\ methods' = methods /\ obj' = obj
             /\ ev'.exc = "none"
             /\ Frame]_vars

C9_Witness ==
    /\ ev.op = "move_assign" /\ ev.x = ev.y
    /\ Held(Machine, ev.x) /\ methods[ev.x] = "Big"

\* C10: one swap leaves each container with the other's former table and
\* buffer; a second swap of the same two restores both.
C10_SwapInvolution ==
    [][ev'.op = "swap"
          => /\ methods'[ev'.x] = methods[ev'.y] /\ methods'[ev'.y] = methods[ev'.x]
             /\ obj'[ev'.x] = obj[ev'.y] /\ obj'[ev'.y] = obj[ev'.x]
             /\ Frame
             /\ ev'.a = 2 => Shape' = ev.orig]_vars

C10_Witness ==
    /\ ev.op = "swap" /\ ev.a = 2
    /\ methods["a"] = "Tiny" /\ methods["b"] = "Big"
    /\ Held(Machine, "a") /\ Held(Machine, "b")

\* C11: operator bool is the comparison of the table pointer with the
\* empty-state table: false after default construction, true after a
\* successful construction from a callable, and for every call the call
\* signals bad_function_call exactly when operator bool was false.
C11_BoolIsTableIdentity ==
    [][/\ \A s \in Slots :
            live'[s] => (operator_bool(Machine', s) <=> methods'[s] # EmptyTable)
       /\ ev'.op = "default" => ~operator_bool(Machine', ev'.x)
       /\ (ev'.op = "construct" /\ ev'.exc = "none") => operator_bool(Machine', ev'.x)
       /\ ev'.op = "invoke"
            => (ev'.exc = "bad_function_call" <=> ~operator_bool(Machine, ev'.x))
      ]_vars

\* a call on the emptied source of a moved large callable
C11_Witness ==
    /\ ev.op = "invoke" /\ ev.exc = "bad_function_call"
    /\ ~operator_bool(Machine, ev.x) /\ obj[ev.x].kind = "ptr"
    /\ live[Other(ev.x)] /\ operator_bool(Machine, Other(ev.x))
    /\ obj[Other(ev.x)] = obj[ev.x]

\* C12 (function.h): a successful construction from a large callable makes
\* exactly one heap allocation and one from a small callable none; a call, a
\* move construction, a move assignment and a destruction make none; and no
\* operation allocates while no container involved holds a large callable.
C12_OneAllocation ==
    [][FunctionH =>
         /\ (ev'.op = "construct" /\ ev'.exc = "none")
               => /\ ev'.news = IF is_small_v(ev'.ty) THEN 0 ELSE 1
                  /\ obj'[ev'.x].kind = IF is_small_v(ev'.ty) THEN "inline" ELSE "ptr"
         /\ (ev'.op = "construct" /\ ev'.exc # "none") => ev'.news = 0
         /\ ev'.op \in {"invoke", "move_construct", "move_assign", "destroy", "default", "swap"}
               => ev'.news = 0
         /\ (/\ ev'.op \in {"copy_construct", "copy_assign"}
             /\ \A s \in Slots : live[s] => (methods[s] = EmptyTable \/ is_small_v(methods[s])))
               => ev'.news = 0
      ]_vars

\* a large callable moved by assignment into a container that held a small one
C12_Witness ==
    /\ FunctionH
    /\ ev.op = "move_assign" /\ ev.x # ev.y /\ ev.news = 0
    /\ methods[ev.x] = "Big" /\ Held(Machine, ev.x)
    /\ methods[ev.y] = EmptyTable

\* the container in slot s owns a stored object
Owns(m, s) == m.methods[s] \in Types /\ m.obj[s].kind \in {"inline", "ptr"}

\* C13 (failure-free behaviours, every draft): no two live containers own
\* the same stored object, every owned object is one whose destructor has
\* not run, an operation that releases the object of a container releases
\* one not released before, and no object is dropped without its destructor.
C13_ExclusiveOwnership ==
    [][/\ \A s, t \in Slots :
            (s # t /\ live'[s] /\ live'[t] /\ Owns(Machine', s) /\ Owns(Machine', t))
                => obj'[s].id # obj'[t].id
       /\ \A s \in Slots :
            (live'[s] /\ Owns(Machine', s)) => dtors'[obj'[s].id] = 0
       /\ (/\ ev'.op \in {"destroy", "move_assign", "copy_assign"}
           /\ ev'.op # "destroy" => ev'.x # ev'.y
           /\ Owns(Machine, ev'.x))
              => dtors[obj[ev'.x].id] = 0
       /\ ~leaked'
      ]_vars

\* C14 (copy-then-swap assignment, second draft of function.h and part_001):
\* when building the copy fails the target's table pointer, buffer and object
\* are untouched; when the assignment returns normally from a source that
\* holds a callable, the new value was constructed (the target holds a live
\* copy with the source's state) when the old one was given up.
C14_CopyThenSwap ==
    [][(draft \in {"B", "C"} /\ ev'.op = "copy_assign" /\ ev'.x # ev'.y)
          => /\ ev'.exc # "none"
                  => /\ methods'[ev'.x] = methods[ev'.x]
                     /\ obj'[ev'.x] = obj[ev'.x]
                     /\ dtors' = dtors /\ hval' = hval
             /\ (ev'.exc = "none" /\ Held(Machine, ev'.y))
                  => /\ methods'[ev'.x] = methods[ev'.y]
                     /\ Held(Machine', ev'.x)
                     /\ ValOf(Machine', ev'.x) = ValOf(Machine, ev'.y)
                     /\ obj'[ev'.x].id # obj[ev'.x].id
      ]_vars

\* C15 (function.h): every constructed container has a table pointer that
\* is set: the empty-state table or the table generated for a type; a
\* default-constructed container has the empty-state table.
C15_TableAlwaysSet ==
    FunctionH =>
        /\ \A s \in Slots : live[s] => methods[s] \in Tables
        /\ (ev.op = "default" /\ live[ev.x]) => methods[ev.x] = EmptyTable

\* second draft, where storage() sets no table: a container move-constructed
\* from an empty one next to a default-constructed one
C15_Witness ==
    /\ draft = "B"
    /\ ev.op = "move_construct" /\ live[ev.x] /\ live[ev.y]
    /\ methods[ev.x] = EmptyTable /\ methods[ev.y] = EmptyTable
    /\ obj[ev.x].kind = "garbage"

\* C16 (first draft of function.h): a = move(b) with a and b distinct and b
\* holding a callable stays within defined behaviour and drops no object
\* (a's previous contents are destroyed exactly once), leaves a with b's
\* table and a live object in b's former state, and leaves b empty or with a
\* live object of its own; destroying, invoking or assigning to b afterwards
\* leaves the object a holds and its state alone.
C16_MoveAssign ==
    [][/\ (/\ draft = "A"
           /\ ev'.op = "move_assign" /\ ev'.x # ev'.y
           /\ Held(Machine, ev'.y))
          => /\ ~ub' /\ leaked' = leaked
             /\ methods'[ev'.x] = methods[ev'.y]
             /\ Held(Machine', ev'.x)
             /\ ValOf(Machine', ev'.x) = ValOf(Machine, ev'.y)
             /\ \/ methods'[ev'.y] = EmptyTable
                \/ Held(Machine', ev'.y) /\ obj'[ev'.y].id # obj'[ev'.x].id
       /\ (/\ draft = "A"
           /\ ev.op = "move_assign" /\ ev.x # ev.y
           /\ Held(Machine, ev.x)
           /\ ev'.x = ev.y
           /\ \/ ev'.op \in {"destroy", "invoke", "copy_assign"}
              \/ ev'.op = "move_assign" /\ ev'.y = ev.y)
          => /\ Held(Machine', ev.x)
             /\ ValOf(Machine', ev.x) = ValOf(Machine, ev.x)
             /\ obj'[ev.x] = obj[ev.x]
      ]_vars

\* C17 (every draft): a copy or move construction reads no table pointer
\* that was never set (it dispatches through the source's table), and when
\* it returns normally the new container has the table the source had and,
\* for a source holding a callable, a live object in the source's state.
C17_CtorUsesSourceTable ==
    [][ev'.op \in {"copy_construct", "move_construct"}
          => /\ ~ev'.unset
             /\ ev'.exc = "none" => methods'[ev'.x] = methods[ev'.y]
             /\ (ev'.exc = "none" /\ Held(Machine, ev'.y))
                  => /\ Held(Machine', ev'.x)
                     /\ ValOf(Machine', ev'.x) = ValOf(Machine, ev'.y)
      ]_vars

\* C18 (function.h): a copy or move construction from an empty container
\* throws nothing, gives an empty container whose buffer was not written,
\* leaves the source empty with its buffer as it was and touches no object;
\* an assignment from an empty container that returns normally leaves both
\* empty and the source's buffer as it was; destroying an empty container
\* touches no object.
C18_EmptyPropagates ==
    [][FunctionH =>
         /\ (/\ ev'.op \in {"copy_construct", "move_construct"}
             /\ methods[ev'.y] = EmptyTable)
               => /\ ev'.exc = "none" /\ ev'.news = 0
                  /\ methods'[ev'.x] = EmptyTable /\ methods'[ev'.y] = EmptyTable
                  /\ obj'[ev'.x] = Garbage /\ obj'[ev'.y] = obj[ev'.y]
                  /\ Frame
         /\ (/\ ev'.op \in {"copy_assign", "move_assign"} /\ ev'.x # ev'.y
             /\ ev'.exc = "none"
             /\ methods[ev'.y] = EmptyTable)
               => /\ methods'[ev'.x] = EmptyTable /\ methods'[ev'.y] = EmptyTable
                  /\ obj'[ev'.y] = obj[ev'.y]
         /\ (ev'.op = "destroy" /\ methods[ev'.x] = EmptyTable)
               => /\ \A o \in Referenced(obj') : hval'[o] = hval[o] /\ dtors'[o] = dtors[o]
                  /\ leaked' = leaked /\ ~ub'
                  /\ methods'[Other(ev'.x)] = methods[Other(ev'.x)]
                  /\ obj'[Other(ev'.x)] = obj[Other(ev'.x)]
      ]_vars

\* a move construction from a container emptied by a large move, whose
\* buffer still holds the pointer
C18_Witness ==
    /\ FunctionH
    /\ ev.op = "move_construct"
    /\ methods[ev.x] = EmptyTable /\ methods[ev.y] = EmptyTable
    /\ obj[ev.y].kind = "ptr" /\ obj[ev.x] = Garbage

\* C19 (first draft of function.h): a copy construction or copy assignment
\* from another container, successful or failed, leaves the source's table
\* pointer and buffer as they were, and the object the source holds with the
\* same state and no destructor run on it.
C19_CopyKeepsSource ==
    [][(/\ draft = "A"
        /\ ev'.op \in {"copy_construct", "copy_assign"}
        /\ ev'.x # ev'.y)
          => /\ methods'[ev'.y] = methods[ev'.y]
             /\ obj'[ev'.y] = obj[ev'.y]
             /\ ValOf(Machine', ev'.y) = ValOf(Machine, ev'.y)
             /\ Owns(Machine, ev'.y)
                  => /\ hval'[obj[ev'.y].id] = hval[obj[ev'.y].id]
                     /\ dtors'[obj[ev'.y].id] = dtors[obj[ev'.y].id]
      ]_vars

\* a failed copy assignment from a counter that was called twice
C19_Witness ==
    /\ draft = "A"
    /\ ev.op = "copy_assign" /\ ev.x # ev.y /\ ev.exc = "copy_failed"
    /\ Held(Machine, ev.y) /\ ValOf(Machine, ev.y) = 2

====
